---- MODULE Spec2Model ----
(***************************************************************************)
(* Brand Content Generator API: the request validators (main.py), the      *)
(* response sanitizer (query_chatgpt.py), the storage upload               *)
(* (s3_uploader.py) and the two generation endpoints (main.py).            *)
(*                                                                         *)
(* Text is a sequence of one-character strings, so that case folding,      *)
(* regular-expression matching and trimming are computed, not assumed.     *)
(***************************************************************************)
EXTENDS Integers, Sequences, FiniteSets, TLC

VARIABLES
    \* one call of a validator: the field, the raw input, the result
    vphase, vfield, vin, vres,
    \* one call of the sanitizer, then a second call on its output
    cphase, raw, afterLead, fenced, cleaned, recleaned,
    \* process-wide configuration read at import (s3_uploader.py)
    bucketSet, creds,
    \* the request being handled: position in the handler, the request body,
    \* the validated parameters, the generated document, the local file name,
    \* the response, the calls made so far, the exception upload_html_to_s3
    \* raised, and what the collaborators (LLM, file system, provider) did
    pc, req, params, html, localName, resp, calls, upExc, env,
    \* the output directory, the clock in whole seconds, requests received
    files, now, served,
    \* requests running lines 82-90 side by side, and the order of their writes
    workers, writeLog,
    \* one call of upload_html_to_s3 on its own
    ucall

valVars == <<vphase, vfield, vin, vres>>

cleanVars == <<cphase, raw, afterLead, fenced, cleaned, recleaned>>

confVars == <<bucketSet, creds>>

reqVars == <<pc, req, params, html, localName, resp, calls, upExc, env>>

worldVars == <<files, now, served>>

writerVars == <<workers, writeLog>>

callVars == <<ucall>>

flowVars == <<confVars, reqVars, worldVars, writerVars, callVars>>

vars == <<valVars, cleanVars, flowVars>>

(* ------------------------------------------------------------------ *)
(* Characters and text helpers                                          *)
(* ------------------------------------------------------------------ *)
LF == "\n"
CR == "\r"
BS == "\\"
\* The backtick character (U+0060); written as a name because the TLA+ lexer
\* does not accept that character inside a string.
BT == "BACKTICK"
SP == " "

\* str.lower() on the characters the model uses (ASCII letters).
LowerPairs ==
    { <<"A","a">>, <<"B","b">>, <<"C","c">>, <<"D","d">>, <<"E","e">>, <<"F","f">>,
      <<"G","g">>, <<"H","h">>, <<"I","i">>, <<"J","j">>, <<"K","k">>, <<"L","l">>,
      <<"M","m">>, <<"N","n">>, <<"O","o">>, <<"P","p">>, <<"Q","q">>, <<"R","r">>,
      <<"S","s">>, <<"T","t">>, <<"U","u">>, <<"V","v">>, <<"W","w">>, <<"X","x">>,
      <<"Y","y">>, <<"Z","z">> }

LowerChar(c) ==
    IF \E p \in LowerPairs : p[1] = c
    THEN (CHOOSE p \in LowerPairs : p[1] = c)[2]
    ELSE c

UpperChar(c) ==
    IF \E p \in LowerPairs : p[2] = c
    THEN (CHOOSE p \in LowerPairs : p[2] = c)[1]
    ELSE c

Lower(s) == [i \in 1..Len(s) |-> LowerChar(s[i])]

Upper(s) == [i \in 1..Len(s) |-> UpperChar(s[i])]

\* s[from..] starts with the literal p.
StartsWithAt(s, from, p) ==
    /\ from >= 1
    /\ from + Len(p) - 1 <= Len(s)
    /\ \A k \in 1..Len(p) : s[from + k - 1] = p[k]

\* p occurs in s (the Python operator in, on strings).
Contains(s, p) == \E i \in 1..(Len(s) + 1) : StartsWithAt(s, i, p)

RECURSIVE JoinWith(_, _)
\* sep.join(words)
JoinWith(words, sep) ==
    IF Len(words) = 0 THEN << >>
    ELSE IF Len(words) = 1 THEN words[1]
    ELSE words[1] \o sep \o JoinWith(Tail(words), sep)

\* A raised Python exception: its class and str(e).
NoExc == [cls |-> "none", msg |-> << >>]

Exc(c, m) == [cls |-> c, msg |-> m]

(* ------------------------------------------------------------------ *)
(* BrandingRequest validators (main.py)                                 *)
(* ------------------------------------------------------------------ *)
valid_tones ==
    << <<"f", "o", "r", "m", "a", "l">>,
       <<"s", "e", "m", "i", "f", "o", "r", "m", "a", "l">>,
       <<"c", "a", "s", "u", "a", "l">>,
       <<"p", "l", "a", "y", "f", "u", "l">> >>

valid_styles ==
    << <<"m", "o", "d", "e", "r", "n">>,
       <<"m", "i", "n", "i", "m", "a", "l", "i", "s", "t", "i", "c">>,
       <<"c", "o", "r", "p", "o", "r", "a", "t", "e">>,
       <<"a", "r", "t", "i", "s", "t", "i", "c">> >>

ToneMsgPrefix ==
    <<"T", "o", "n", "e", " ", "m", "u", "s", "t", " ", "b", "e", " ", "o", "n",
      "e", " ", "o", "f", ":", " ">>

StyleMsgPrefix ==
    <<"D", "e", "s", "i", "g", "n", " ", "s", "t", "y", "l", "e", " ", "m", "u",
      "s", "t", " ", "b", "e", " ", "o", "n", "e", " ", "o", "f", ":", " ">>

ColorMsg ==
    <<"P", "r", "i", "m", "a", "r", "y", " ", "c", "o", "l", "o", "r", " ", "m",
      "u", "s", "t", " ", "b", "e", " ", "a", " ", "v", "a", "l", "i", "d", " ",
      "H", "E", "X", " ", "c", "o", "l", "o", "r">>

CommaSpace == <<",", " ">>

\* The result of a validator: the normalized value, or the ValueError raised.
Accepted(v) == [ok |-> TRUE, value |-> v, error |-> NoExc]

Rejected(e) == [ok |-> FALSE, value |-> << >>, error |-> e]

InList(x, list) == \E i \in 1..Len(list) : list[i] = x

\* The mutant of validate_tone compares the input as given.
validate_tone_nolower(v) ==
    IF ~InList(v, valid_tones)
    THEN Rejected(Exc("ValueError", ToneMsgPrefix \o JoinWith(valid_tones, CommaSpace)))
    ELSE Accepted(Lower(v))

validate_tone(v) ==
    IF ~InList(Lower(v), valid_tones)
    THEN Rejected(Exc("ValueError", ToneMsgPrefix \o JoinWith(valid_tones, CommaSpace)))
    ELSE Accepted(Lower(v))

validate_design_style(v) ==
    IF ~InList(Lower(v), valid_styles)
    THEN Rejected(Exc("ValueError", StyleMsgPrefix \o JoinWith(valid_styles, CommaSpace)))
    ELSE Accepted(Lower(v))

HexDigits ==
    {"0", "1", "2", "3", "4", "5", "6", "7", "8", "9",
     "a", "b", "c", "d", "e", "f", "A", "B", "C", "D", "E", "F"}

\* re.match of hex_pattern against v. The pattern is anchored at the start;
\* without re.MULTILINE the dollar anchor matches at the end of the string
\* and also just before a newline that is the last character of the string.
HexPatternMatches(v) ==
    \E n \in {3, 6} :
        /\ Len(v) >= n + 1
        /\ v[1] = "#"
        /\ \A i \in 2..(n + 1) : v[i] \in HexDigits
        /\ \/ Len(v) = n + 1
           \/ Len(v) = n + 2 /\ v[n + 2] = LF

validate_hex_color(v) ==
    IF ~HexPatternMatches(v)
    THEN Rejected(Exc("ValueError", ColorMsg))
    ELSE Accepted(Upper(v))

(* ------------------------------------------------------------------ *)
(* clean_html_response (query_chatgpt.py)                               *)
(* ------------------------------------------------------------------ *)
Fence == <<BT, BT, BT>>

HtmlTag == <<"h", "t", "m", "l">>

EscapedLF == <<BS, "n">>

EscapedCR == <<BS, "r">>

\* Characters str.strip() removes.
Whitespace == {SP, LF, CR, "\t"}

RECURSIVE RunEnd(_, _, _)
\* The first position at or after i whose character is not in set
\* (Len(s) + 1 when the run reaches the end): where a greedy [..]* stops.
RunEnd(s, i, set) ==
    IF i <= Len(s) /\ s[i] \in set THEN RunEnd(s, i + 1, set) ELSE i

\* The mutant of AtLineStart: the caret without re.MULTILINE.
AtTextStartOnly(s, i) == i = 1

\* Where the caret matches under re.MULTILINE: at the start of the text and
\* right after every newline.
AtLineStart(s, i) == i = 1 \/ s[i - 1] = LF

\* Where the dollar anchor matches under re.MULTILINE: at the end of the text
\* and right before every newline.
AtLineEnd(s, i) == i = Len(s) + 1 \/ (i <= Len(s) /\ s[i] = LF)

\* The pattern ^```(?:html)?[\r\n]* matches at position i.
LeadFenceAt(s, i) == AtLineStart(s, i) /\ StartsWithAt(s, i, Fence)

\* The position after that match: the marker, the tag if present, then the
\* whole run of CR and LF.
LeadFenceEnd(s, i) ==
    LET j == IF StartsWithAt(s, i + 3, HtmlTag) THEN i + 7 ELSE i + 3
    IN  RunEnd(s, j, {CR, LF})

RECURSIVE SubLeadFence(_, _)
\* re.sub scans left to right and replaces each non-overlapping match by ''.
SubLeadFence(s, i) ==
    IF i > Len(s) THEN << >>
    ELSE IF LeadFenceAt(s, i) THEN SubLeadFence(s, LeadFenceEnd(s, i))
    ELSE <<s[i]>> \o SubLeadFence(s, i + 1)

\* re.sub(r'^```(?:html)?[\r\n]*', '', html_content, flags=re.MULTILINE)
StripLeadingFence(s) == SubLeadFence(s, 1)

\* The pattern [\r\n]*```$ matches at position i: the run of CR and LF from i
\* (greedy; giving characters back cannot help, a marker never starts with
\* CR or LF), the marker, then the end of a line.
TrailFenceAt(s, i) ==
    LET k == RunEnd(s, i, {CR, LF})
    IN  StartsWithAt(s, k, Fence) /\ AtLineEnd(s, k + 3)

TrailFenceEnd(s, i) == RunEnd(s, i, {CR, LF}) + 3

RECURSIVE SubTrailFence(_, _)
SubTrailFence(s, i) ==
    IF i > Len(s) THEN << >>
    ELSE IF TrailFenceAt(s, i) THEN SubTrailFence(s, TrailFenceEnd(s, i))
    ELSE <<s[i]>> \o SubTrailFence(s, i + 1)

\* re.sub(r'[\r\n]*```$', '', cleaned, flags=re.MULTILINE)
StripTrailingFence(s) == SubTrailFence(s, 1)

RECURSIVE SubNewlines(_, _)
SubNewlines(s, i) ==
    IF i > Len(s) THEN << >>
    ELSE IF RunEnd(s, i, {LF}) - i >= 3
         THEN <<LF, LF>> \o SubNewlines(s, RunEnd(s, i, {LF}))
    ELSE <<s[i]>> \o SubNewlines(s, i + 1)

\* re.sub(r'\n{3,}', '\n\n', cleaned)
CollapseNewlines(s) == SubNewlines(s, 1)

RECURSIVE ReplaceAll(_, _, _)
\* s.replace(p, '') for a non-empty literal p, from position i.
ReplaceAll(s, p, i) ==
    IF i > Len(s) THEN << >>
    ELSE IF StartsWithAt(s, i, p) THEN ReplaceAll(s, p, i + Len(p))
    ELSE <<s[i]>> \o ReplaceAll(s, p, i + 1)

\* cleaned.replace('`', '')
RemoveBackticks(s) == ReplaceAll(s, <<BT>>, 1)

\* cleaned.strip()
Strip(s) ==
    IF \A i \in 1..Len(s) : s[i] \in Whitespace THEN << >>
    ELSE LET first == CHOOSE i \in 1..Len(s) :
                          s[i] \notin Whitespace /\ \A j \in 1..(i - 1) : s[j] \in Whitespace
             last == CHOOSE i \in 1..Len(s) :
                          s[i] \notin Whitespace /\ \A j \in (i + 1)..Len(s) : s[j] \in Whitespace
         IN  SubSeq(s, first, last)

\* cleaned.replace('\\n', '').replace('\\r', '')
RemoveEscapes(s) == ReplaceAll(ReplaceAll(s, EscapedLF, 1), EscapedCR, 1)

\* The text after the two fence substitutions (lines 20-21).
FencesStripped(s) == StripTrailingFence(StripLeadingFence(s))

clean_html_response(html_content) ==
    RemoveEscapes(Strip(RemoveBackticks(CollapseNewlines(FencesStripped(html_content)))))

\* The longest run of consecutive newline characters in s.
MaxNewlineRun(s) ==
    LET runs == {RunEnd(s, i, {LF}) - i : i \in 1..(Len(s) + 1)}
    IN  CHOOSE n \in runs : \A m \in runs : m <= n

(* ------------------------------------------------------------------ *)
(* validate_html (query_chatgpt.py) and the file name (main.py)         *)
(* ------------------------------------------------------------------ *)
Doctype == <<"<", "!", "d", "o", "c", "t", "y", "p", "e", " ", "h", "t", "m", "l", ">">>

HtmlOpen == <<"<", "h", "t", "m", "l">>

HtmlClose == <<"<", "/", "h", "t", "m", "l", ">">>

EndsWith(s, p) == Len(s) >= Len(p) /\ StartsWithAt(s, Len(s) - Len(p) + 1, p)

validate_html(html_content) ==
    LET t == Lower(Strip(html_content))
        has_doctype == StartsWithAt(t, 1, Doctype) \/ StartsWithAt(t, 1, HtmlOpen)
        has_closing == EndsWith(t, HtmlClose)
    IN  has_doctype /\ has_closing

OUTPUT_DIR == "generated_websites"

Letters == {x[1] : x \in LowerPairs} \cup {x[2] : x \in LowerPairs}

\* What the character class [\w\s-] holds.
SlugKeep ==
    Letters \cup {"0", "1", "2", "3", "4", "5", "6", "7", "8", "9", "_"}
        \cup Whitespace \cup {"-"}

KeptInSlug(c) == c \in SlugKeep

\* re.sub(r'[^\w\s-]', '', name).strip().replace(' ', '_').lower()
Slugify(name) ==
    LET t == Strip(SelectSeq(name, KeptInSlug))
    IN  Lower([i \in 1..Len(t) |-> IF t[i] = SP THEN "_" ELSE t[i]])

Digit(n) == <<"0", "1", "2", "3", "4", "5", "6", "7", "8", "9">>[n + 1]

\* %H, %M, %S: two digits, zero-padded.
TwoDigits(n) == <<Digit(n \div 10), Digit(n % 10)>>

\* The %Y%m%d of the day the clock runs in.
ClockDate == <<"2", "0", "2", "6", "1", "1", "0", "2">>

\* datetime.now().strftime("%Y%m%d_%H%M%S"), t the second of the day.
Timestamp(t) ==
    ClockDate \o <<"_">> \o TwoDigits(t \div 3600) \o TwoDigits((t \div 60) % 60)
        \o TwoDigits(t % 60)

\* The mutant of FileName: the name without the timestamp.
FileNameNoStamp(safe_company_name, t) ==
    safe_company_name \o <<".", "h", "t", "m", "l">>

\* f"{safe_company_name}_{timestamp}.html", the timestamp taken at second t.
FileName(safe_company_name, t) ==
    safe_company_name \o <<"_">> \o Timestamp(t) \o <<".", "h", "t", "m", "l">>

NoName == << >>

\* OUTPUT_DIR / filename
FilePath(name) == [dir |-> OUTPUT_DIR, name |-> name]

(* ------------------------------------------------------------------ *)
(* upload_html_to_s3 (s3_uploader.py)                                   *)
(* ------------------------------------------------------------------ *)
BucketUnsetMsg == "S3_BUCKET_NAME not set in environment variables"

CredsMsg ==
    "AWS credentials not found. Please set AWS_ACCESS_KEY_ID and AWS_SECRET_ACCESS_KEY"

PartialCredsMsg == "Partial credentials found in explicit"

UploadFailedPrefix == "S3 upload failed: "

\* What the storage provider did with the one put_object of a request.
NoProvider == [kind |-> "none", msg |-> << >>]

ProviderOk == [kind |-> "ok", msg |-> << >>]

\* A ClientError: the provider answered with an error message. The provider
\* chooses the text; one of the texts below repeats the credentials message.
ProviderRejects ==
    {[kind |-> "reject", msg |-> m] : m \in {<<"Access Denied">>, <<CredsMsg>>}}

\* Any other failure of the call (the provider cannot be reached).
ProviderUnreachable == [kind |-> "unreachable", msg |-> <<"Could not connect to the endpoint URL">>]

ProviderOutcomes == {ProviderOk, ProviderUnreachable} \cup ProviderRejects

\* url_expiration_days: int = 7
DefaultExpirationDays == 7

\* expiration_seconds = url_expiration_days * 24 * 60 * 60
ExpirationSeconds(url_expiration_days) == url_expiration_days * 24 * 60 * 60

\* generate_presigned_url('get_object', Params={... 'Key': s3_key ...},
\* ExpiresIn=expiration_seconds): the URL carries the key and its validity.
PresignedUrl(s3_key, expiration_seconds) ==
    [key |-> s3_key, expires_in |-> expiration_seconds]

NoUrl == PresignedUrl(NoName, 0)

\* f"brand-websites/{safe_company_name}_{timestamp}.html"
S3Key(safe_company_name, t) == <<"brand-websites/">> \o FileName(safe_company_name, t)

\* "url_expires_in": "7 days"
ReportedExpiry == <<"7", " ", "d", "a", "y", "s">>

\* The part of the returned record the handler passes on in its response.
NoS3 == [s3_key |-> NoName, bucket |-> "", region |-> "", public_url |-> NoUrl]

\* The record upload_html_to_s3 returns.
NoRecord ==
    [success |-> FALSE, s3_key |-> NoName, bucket |-> "", region |-> "",
     public_url |-> NoUrl, url_expires_in |-> << >>, timestamp |-> << >>]

\* The mutant of ClientErrorText: the message without the prefix.
ClientErrorTextBare(error_msg) == error_msg

\* f"S3 upload failed: {error_msg}"
ClientErrorText(error_msg) == <<UploadFailedPrefix>> \o error_msg

NoCalls == [prompt |-> 0, llm |-> 0, write |-> 0, upload |-> 0, client |-> 0, put |-> 0, presign |-> 0]

\* One call of upload_html_to_s3 at second t, the provider answering pv:
\* the exception raised (NoExc when it returns), the record returned, and
\* how many clients it created, objects it put and URLs it signed.
upload_html_to_s3(company_name, t, pv, url_expiration_days) ==
    IF ~bucketSet
    THEN [exc |-> Exc("ValueError", <<BucketUnsetMsg>>), result |-> NoRecord,
          client |-> 0, put |-> 0, presign |-> 0, provider |-> NoProvider]
    ELSE IF creds = "partial"
    THEN \* boto3.client raises inside get_s3_client, which re-raises
         [exc |-> Exc("PartialCredentialsError", <<PartialCredsMsg>>), result |-> NoRecord,
          client |-> 0, put |-> 0, presign |-> 0, provider |-> NoProvider]
    ELSE IF creds = "absent"
    THEN \* put_object raises NoCredentialsError before anything is sent
         [exc |-> Exc("Exception", <<CredsMsg>>), result |-> NoRecord,
          client |-> 1, put |-> 1, presign |-> 0, provider |-> NoProvider]
    ELSE IF pv.kind = "reject"
    THEN [exc |-> Exc("Exception", ClientErrorText(pv.msg)), result |-> NoRecord,
          client |-> 1, put |-> 1, presign |-> 0, provider |-> pv]
    ELSE IF pv.kind = "unreachable"
    THEN [exc |-> Exc("EndpointConnectionError", pv.msg), result |-> NoRecord,
          client |-> 1, put |-> 1, presign |-> 0, provider |-> pv]
    ELSE LET s3_key == S3Key(Slugify(company_name), t)
         IN  [exc |-> NoExc,
              result |-> [success |-> TRUE, s3_key |-> s3_key,
                          bucket |-> "bucket", region |-> "region",
                          public_url |-> PresignedUrl(s3_key,
                                            ExpirationSeconds(url_expiration_days)),
                          url_expires_in |-> ReportedExpiry,
                          timestamp |-> Timestamp(t)],
              client |-> 1, put |-> 1, presign |-> 1, provider |-> pv]

(* ------------------------------------------------------------------ *)
(* Responses of the two generation endpoints (main.py)                  *)
(* ------------------------------------------------------------------ *)
NoResp ==
    [status |-> 0, success |-> FALSE, message |-> "",
     has_local |-> FALSE, filename |-> NoName, filepath |-> FilePath(NoName),
     has_s3 |-> FALSE, s3 |-> NoS3, has_s3_error |-> FALSE, s3_error |-> << >>,
     detail |-> << >>, content |-> << >>]

\* raise HTTPException(status_code=..., detail=...)
HttpError(code, detail) == [NoResp EXCEPT !.status = code, !.detail = detail]

\* HTMLResponse(content=html_content)
HtmlPage(content) == [NoResp EXCEPT !.status = 200, !.content = content]

GenerationErrorPrefix == "Error generating content: "

\* The outer handler: except Exception as e -> HTTP 500.
GenerationError(e) == HttpError(500, <<GenerationErrorPrefix>> \o e.msg)

UploadedResponse(name, result) ==
    [NoResp EXCEPT !.status = 200, !.success = TRUE,
                   !.message = "Website generated and uploaded to S3 successfully",
                   !.has_local = TRUE, !.filename = name, !.filepath = FilePath(name),
                   !.has_s3 = TRUE,
                   !.s3 = [s3_key |-> result.s3_key, bucket |-> result.bucket,
                           region |-> result.region, public_url |-> result.public_url]]

\* The mutant of UploadFailureResponse: the upload error reaches the outer
\* handler.
UploadFailureAsError(name, s3_error) == GenerationError(s3_error)

\* The inner handler: except Exception as s3_error -> success, local file
\* info, str(s3_error).
UploadFailureResponse(name, s3_error) ==
    [NoResp EXCEPT !.status = 200, !.success = TRUE,
                   !.message = "Website generated locally, but S3 upload failed",
                   !.has_local = TRUE, !.filename = name, !.filepath = FilePath(name),
                   !.has_s3_error = TRUE, !.s3_error = s3_error.msg]

\* The three validator calls in the try block, in order: the first ValueError
\* raised, NoExc when all three return.
FirstValidationError(r) ==
    IF ~validate_tone(r.tone).ok THEN validate_tone(r.tone).error
    ELSE IF ~validate_design_style(r.design_style).ok
         THEN validate_design_style(r.design_style).error
    ELSE IF ~validate_hex_color(r.primary_color).ok
         THEN validate_hex_color(r.primary_color).error
    ELSE NoExc

NoReq ==
    [endpoint |-> "none", company_name |-> << >>, tone |-> << >>,
     design_style |-> << >>, primary_color |-> << >>]

NoParams == [company_name |-> << >>, tone |-> << >>, design_style |-> << >>, primary_color |-> << >>]

NoEnv == [llm |-> "none", save |-> "none", provider |-> NoProvider, wellformed |-> FALSE]

\* The mutant of AfterQueryError: the failed LLM call is issued again.
AfterQueryErrorRetry(e) == [pc |-> "query", resp |-> NoResp]

\* query_chatgpt_function re-raises; the outer handler answers 500.
AfterQueryError(e) == [pc |-> "done", resp |-> GenerationError(e)]

\* The mutant of AfterWriteError: the write error is swallowed and the
\* handler goes on to the upload.
AfterWriteErrorContinue(e) == [pc |-> "upload", resp |-> NoResp]

\* open()/write() raising inside the outer try: the outer handler answers 500.
AfterWriteError(e) == [pc |-> "done", resp |-> GenerationError(e)]

HtmlCheckError == Exc("ValueError", <<"HTML validation failed">>)

\* The mutant of AfterHtmlCheck: a document that fails the check ends the
\* request.
AfterHtmlCheckStrict(valid) ==
    IF valid THEN [pc |-> "write", resp |-> NoResp]
    ELSE [pc |-> "done", resp |-> GenerationError(HtmlCheckError)]

\* if not validate_html(html_content): print("Warning: ..."): the handler
\* goes on to the file name and the write either way.
AfterHtmlCheck(valid) == [pc |-> "write", resp |-> NoResp]

(* ------------------------------------------------------------------ *)
(* Bounds of the input spaces                                           *)
(* ------------------------------------------------------------------ *)
\* Longest primary_color input, in characters.
MaxColorLen == 7

\* Most letters of an enumerated word written in upper case (besides the
\* all-upper-case spelling).
MaxUpper == 2

\* Most pieces a raw LLM reply is assembled from, for the whole sanitizer.
MaxPieces == 6

\* Most pieces a raw text is assembled from, for the two fence substitutions.
MaxFencePieces == 5

\* Most requests received, and the last second of the clock.
MaxRequests == 2

MaxTime == 1

\* Requests that run lines 82-90 side by side.
MaxWorkers == 2

\* Largest url_expiration_days passed to upload_html_to_s3.
MaxDays == 8

(* ------------------------------------------------------------------ *)
(* The validators as a state machine: an input is given, one validator  *)
(* is called on it.                                                     *)
(* ------------------------------------------------------------------ *)
NoResult == [ok |-> FALSE, value |-> << >>, error |-> NoExc]

ValidatorIdle ==
    /\ vphase = "off"
    /\ vfield = "none"
    /\ vin = << >>
    /\ vres = NoResult

NoWorker == [pc |-> "none", company_name |-> << >>, stamp |-> -1, filename |-> NoName]

WritersIdle ==
    /\ workers = << >>
    /\ writeLog = << >>

NoCall ==
    [phase |-> "off", company_name |-> << >>, url_expiration_days |-> 0,
     exc |-> NoExc, result |-> NoRecord]

CallIdle == ucall = NoCall

FlowIdle ==
    /\ bucketSet = FALSE
    /\ creds = "absent"
    /\ pc = "off"
    /\ req = NoReq
    /\ params = NoParams
    /\ html = << >>
    /\ localName = NoName
    /\ resp = NoResp
    /\ calls = NoCalls
    /\ upExc = NoExc
    /\ env = NoEnv
    /\ files = << >>
    /\ now = 0
    /\ served = 0
    /\ WritersIdle
    /\ CallIdle

CleanIdle ==
    /\ cphase = "off"
    /\ raw = << >>
    /\ afterLead = << >>
    /\ fenced = << >>
    /\ cleaned = << >>
    /\ recleaned = << >>

ColorChars == {"#", "a", "F", "9", "g", LF}

ColorInputs == UNION {[1..n -> ColorChars] : n \in 0..MaxColorLen}

EnumWords ==
    {valid_tones[i] : i \in 1..Len(valid_tones)}
        \cup {valid_styles[i] : i \in 1..Len(valid_styles)}

\* w with the letters at the positions in mask in upper case.
Cased(w, mask) == [i \in 1..Len(w) |-> IF i \in mask THEN UpperChar(w[i]) ELSE w[i]]

Masks(w) ==
    {m \in SUBSET (1..Len(w)) : Cardinality(m) <= MaxUpper \/ Cardinality(m) = Len(w)}

\* Spellings of the eight words in mixed case, whole or cut short by a
\* letter, bare or with a character before or after.
EnumInputs ==
    UNION { {pre \o Cased(SubSeq(w, 1, Len(w) - cut), m) \o suf :
                m \in Masks(w), cut \in {0, 1},
                pre \in {<< >>, <<SP>>}, suf \in {<< >>, <<SP>>, <<"s">>, <<LF>>}} :
            w \in EnumWords }

InitEnum ==
    /\ vphase = "input"
    /\ vfield \in {"tone", "design_style"}
    /\ vin \in EnumInputs
    /\ vres = NoResult
    /\ CleanIdle
    /\ FlowIdle

InitColor ==
    /\ vphase = "input"
    /\ vfield = "primary_color"
    /\ vin \in ColorInputs
    /\ vres = NoResult
    /\ CleanIdle
    /\ FlowIdle

ValidateTone ==
    /\ vphase = "input"
    /\ vfield = "tone"
    /\ vres' = validate_tone(vin)
    /\ vphase' = "done"
    /\ UNCHANGED <<vfield, vin, cleanVars, flowVars>>

ValidateStyle ==
    /\ vphase = "input"
    /\ vfield = "design_style"
    /\ vres' = validate_design_style(vin)
    /\ vphase' = "done"
    /\ UNCHANGED <<vfield, vin, cleanVars, flowVars>>

ValidateColor ==
    /\ vphase = "input"
    /\ vfield = "primary_color"
    /\ vres' = validate_hex_color(vin)
    /\ vphase' = "done"
    /\ UNCHANGED <<vfield, vin, cleanVars, flowVars>>

NextEnum == ValidateTone \/ ValidateStyle

SpecEnum == InitEnum /\ [][NextEnum]_vars

NextColor == ValidateColor

SpecColor == InitColor /\ [][NextColor]_vars

(* ------------------------------------------------------------------ *)
(* The sanitizer as a state machine: a raw reply is given, the          *)
(* sanitizer is called on it, then called again on its own output.      *)
(* ------------------------------------------------------------------ *)
\* What raw replies are assembled from: a fence marker, a lone backtick, the
\* tag, a newline, the two-character escape sequence, an ordinary character.
Pieces == {Fence, <<BT>>, HtmlTag, <<LF>>, EscapedLF, <<"a">>}

RECURSIVE Flatten(_)
Flatten(ps) == IF Len(ps) = 0 THEN << >> ELSE ps[1] \o Flatten(Tail(ps))

TextsOf(maxPieces) ==
    {Flatten(ps) : ps \in UNION {[1..n -> Pieces] : n \in 0..maxPieces}}

RawTexts == TextsOf(MaxPieces)

FenceTexts == TextsOf(MaxFencePieces)

InitClean ==
    /\ cphase = "raw"
    /\ raw \in RawTexts
    /\ afterLead = << >>
    /\ fenced = << >>
    /\ cleaned = << >>
    /\ recleaned = << >>
    /\ ValidatorIdle
    /\ FlowIdle

\* cleaned = clean_html_response(raw); afterLead and fenced record the text
\* after the first and after the second fence substitution.
Clean ==
    /\ cphase = "raw"
    /\ afterLead' = StripLeadingFence(raw)
    /\ fenced' = FencesStripped(raw)
    /\ cleaned' = clean_html_response(raw)
    /\ cphase' = "cleaned"
    /\ UNCHANGED <<raw, recleaned, valVars, flowVars>>

\* A second call, on the output of the first.
CleanAgain ==
    /\ cphase = "cleaned"
    /\ recleaned' = clean_html_response(cleaned)
    /\ cphase' = "recleaned"
    /\ UNCHANGED <<raw, afterLead, fenced, cleaned, valVars, flowVars>>

NextClean == Clean \/ CleanAgain

SpecClean == InitClean /\ [][NextClean]_vars

InitFence ==
    /\ cphase = "raw"
    /\ raw \in FenceTexts
    /\ afterLead = << >>
    /\ fenced = << >>
    /\ cleaned = << >>
    /\ recleaned = << >>
    /\ ValidatorIdle
    /\ FlowIdle

\* The first two statements of clean_html_response, one after the other.
StripFences ==
    /\ cphase = "raw"
    /\ afterLead' = StripLeadingFence(raw)
    /\ fenced' = StripTrailingFence(afterLead')
    /\ cphase' = "fenced"
    /\ UNCHANGED <<raw, cleaned, recleaned, valVars, flowVars>>

NextFence == StripFences

SpecFence == InitFence /\ [][NextFence]_vars

(* ------------------------------------------------------------------ *)
(* The two generation endpoints as a state machine (main.py). A handler *)
(* is a coroutine with no await in it, so the event loop runs one       *)
(* request to its response before it takes the next; the clock runs on  *)
(* its own.                                                             *)
(* ------------------------------------------------------------------ *)
Endpoints == {"generate", "preview"}

CompanyNames ==
    { <<"A", "c", "m", "e", " ", "C", "o">>,
      <<"A", "C", "M", "E", " ", "C", "o", "!">> }

ToneSamples == { <<"C", "a", "s", "u", "a", "l">>, <<"l", "o", "u", "d">> }

StyleSamples == { <<"M", "O", "D", "E", "R", "N">>, <<"r", "e", "t", "r", "o">> }

ColorSamples == { <<"#", "a", "b", "c">>, <<"a", "b", "c">>, <<"#", "a", "b", "c", LF>> }

Requests ==
    [endpoint : Endpoints, company_name : CompanyNames, tone : ToneSamples,
     design_style : StyleSamples, primary_color : ColorSamples]

\* What the LLM may answer: a fenced, well-formed page and a bare fragment.
PageText == <<"<", "h", "t", "m", "l", ">", "x", "<", "/", "h", "t", "m", "l", ">">>

LLMReplies ==
    { Fence \o HtmlTag \o <<LF>> \o PageText \o <<LF>> \o Fence,
      <<"<", "d", "i", "v", ">", "x", "<", "/", "d", "i", "v", ">">> }

LLMError == Exc("APIError", <<"Connection error.">>)

WriteError == Exc("OSError", <<"No space left on device">>)

Init ==
    /\ bucketSet \in BOOLEAN
    /\ creds \in {"present", "absent", "partial"}
    /\ pc = "idle"
    /\ req = NoReq
    /\ params = NoParams
    /\ html = << >>
    /\ localName = NoName
    /\ resp = NoResp
    /\ calls = NoCalls
    /\ upExc = NoExc
    /\ env = NoEnv
    /\ files = << >>
    /\ now = 0
    /\ served = 0
    /\ WritersIdle
    /\ CallIdle
    /\ ValidatorIdle
    /\ CleanIdle

\* A request body arrives at one of the two endpoints.
Receive ==
    /\ pc \in {"idle", "done"}
    /\ served < MaxRequests
    /\ \E r \in Requests : req' = r
    /\ pc' = "validate"
    /\ params' = NoParams
    /\ html' = << >>
    /\ localName' = NoName
    /\ resp' = NoResp
    /\ calls' = NoCalls
    /\ upExc' = NoExc
    /\ env' = NoEnv
    /\ served' = served + 1
    /\ UNCHANGED <<confVars, files, now, valVars, cleanVars,
                   writerVars, callVars>>

\* Lines 54-69 and 167-182: the validators, then brand_parameters.
Validate ==
    /\ pc = "validate"
    /\ IF FirstValidationError(req) # NoExc
       THEN /\ resp' = HttpError(400, FirstValidationError(req).msg)
            /\ pc' = "done"
            /\ UNCHANGED params
       ELSE /\ params' = [company_name |-> req.company_name,
                          tone |-> validate_tone(req.tone).value,
                          design_style |-> validate_design_style(req.design_style).value,
                          primary_color |-> validate_hex_color(req.primary_color).value]
            /\ pc' = "prompt"
            /\ UNCHANGED resp
    /\ UNCHANGED <<confVars, req, html, localName, calls, upExc, env, worldVars,
                   valVars, cleanVars,
                   writerVars, callVars>>

\* Lines 73 and 186: create_prompt_from_parameters(brand_parameters).
BuildPrompt ==
    /\ pc = "prompt"
    /\ calls' = [calls EXCEPT !.prompt = @ + 1]
    /\ pc' = "query"
    /\ UNCHANGED <<confVars, req, params, html, localName, resp, upExc, env, worldVars,
                   valVars, cleanVars,
                   writerVars, callVars>>

\* Lines 76 and 189: query_chatgpt_function(prompt): one call to the LLM,
\* which fails or replies; the reply is cleaned. The preview endpoint
\* returns the document at once.
QueryLLM ==
    /\ pc = "query"
    /\ calls' = [calls EXCEPT !.llm = @ + 1]
    /\ \/ /\ env' = [env EXCEPT !.llm = "failed"]
          /\ pc' = AfterQueryError(LLMError).pc
          /\ resp' = AfterQueryError(LLMError).resp
          /\ UNCHANGED html
       \/ \E reply \in LLMReplies :
            /\ env' = [env EXCEPT !.llm = "ok"]
            /\ html' = clean_html_response(reply)
            /\ IF req.endpoint = "preview"
               THEN pc' = "done" /\ resp' = HtmlPage(html')
               ELSE pc' = "save" /\ UNCHANGED resp
    /\ UNCHANGED <<confVars, req, params, localName, upExc, worldVars, valVars, cleanVars,
                   writerVars, callVars>>

\* Lines 78-92: validate_html (a warning at most), the file name from the
\* clock and the company name, then the write, which succeeds or raises; a
\* write that raises leaves the file as it was or leaves it empty.
SaveLocal ==
    /\ pc = "save"
    /\ IF AfterHtmlCheck(validate_html(html)).pc = "done"
       THEN /\ pc' = "done"
            /\ resp' = AfterHtmlCheck(validate_html(html)).resp
            /\ env' = [env EXCEPT !.wellformed = validate_html(html)]
            /\ UNCHANGED <<localName, calls, files>>
       ELSE /\ localName' = FileName(Slugify(req.company_name), now)
            /\ calls' = [calls EXCEPT !.write = @ + 1]
            /\ \/ /\ files' = (localName' :> html) @@ files
                  /\ env' = [env EXCEPT !.save = "ok", !.wellformed = validate_html(html)]
                  /\ pc' = "upload"
                  /\ UNCHANGED resp
               \/ /\ \/ UNCHANGED files
                     \/ files' = (localName' :> << >>) @@ files
                  /\ env' = [env EXCEPT !.save = "failed",
                                        !.wellformed = validate_html(html)]
                  /\ pc' = AfterWriteError(WriteError).pc
                  /\ resp' = AfterWriteError(WriteError).resp
    /\ UNCHANGED <<confVars, req, params, html, upExc, now, served, valVars, cleanVars,
                   writerVars, callVars>>

\* Lines 94-139: upload_html_to_s3 inside the inner try, then the response.
Upload ==
    /\ pc = "upload"
    /\ \E pv \in ProviderOutcomes :
         LET r == upload_html_to_s3(req.company_name, now, pv, DefaultExpirationDays)
         IN  /\ calls' = [calls EXCEPT !.upload = @ + 1,
                                       !.client = @ + r.client,
                                       !.put = @ + r.put,
                                       !.presign = @ + r.presign]
             /\ upExc' = r.exc
             /\ env' = [env EXCEPT !.provider = r.provider]
             /\ resp' = IF r.exc = NoExc
                        THEN UploadedResponse(localName, r.result)
                        ELSE UploadFailureResponse(localName, r.exc)
    /\ pc' = "done"
    /\ UNCHANGED <<confVars, req, params, html, localName, worldVars, valVars, cleanVars,
                   writerVars, callVars>>

\* datetime.now() moves to the next second.
Tick ==
    /\ pc # "off"
    /\ now < MaxTime
    /\ now' = now + 1
    /\ UNCHANGED <<confVars, reqVars, files, served, valVars, cleanVars,
                   writerVars, callVars>>

Next ==
    \/ Receive
    \/ Validate
    \/ BuildPrompt
    \/ QueryLLM
    \/ SaveLocal
    \/ Upload
    \/ Tick

Spec == Init /\ [][Next]_vars

(* ------------------------------------------------------------------ *)
(* Lines 82-90 of generate_brand_content run by several requests side   *)
(* by side (several server processes share the output directory): each  *)
(* request reads the clock and names its file, then writes it; the      *)
(* steps of different requests and the clock interleave freely.         *)
(* ------------------------------------------------------------------ *)
WorkerIds == 1..MaxWorkers

\* Two names with the slug acme_co, one with the slug acme, and one whose
\* slug ends like a timestamp.
WriterNames ==
    CompanyNames \cup
    { <<"A", "c", "m", "e">>,
      <<"A", "c", "m", "e", "_">> \o Timestamp(9) }

\* The seconds the clock may start at: the next second changes one, two
\* and three digits of the timestamp.
ClockStarts == {0, 9, 59}

ClockValues == UNION { s..(s + MaxTime) : s \in ClockStarts }

\* The document of request i (every request has its own).
DocOf(i) == <<"doc", i>>

InitWriters ==
    /\ workers = [i \in WorkerIds |-> NoWorker]
    /\ writeLog = << >>
    /\ files = << >>
    /\ now \in ClockStarts
    /\ bucketSet = FALSE
    /\ creds = "absent"
    /\ pc = "off"
    /\ req = NoReq
    /\ params = NoParams
    /\ html = << >>
    /\ localName = NoName
    /\ resp = NoResp
    /\ calls = NoCalls
    /\ upExc = NoExc
    /\ env = NoEnv
    /\ served = 0
    /\ CallIdle
    /\ ValidatorIdle
    /\ CleanIdle

writerFrame == <<confVars, reqVars, served, callVars, valVars, cleanVars>>

\* Request i has its document and reaches line 82.
Arrive(i) ==
    /\ workers[i].pc = "none"
    /\ \E c \in WriterNames :
         workers' = [workers EXCEPT ![i] = [NoWorker EXCEPT !.pc = "arrived",
                                                            !.company_name = c]]
    /\ UNCHANGED <<writeLog, files, now, writerFrame>>

\* Lines 83-86: timestamp, safe_company_name, filename, filepath.
NameFile(i) ==
    /\ workers[i].pc = "arrived"
    /\ workers' = [workers EXCEPT
                     ![i].pc = "named",
                     ![i].stamp = now,
                     ![i].filename = FileName(Slugify(workers[i].company_name), now)]
    /\ UNCHANGED <<writeLog, files, now, writerFrame>>

\* Lines 89-90: open(filepath, 'w') and f.write(html_content).
WriteFile(i) ==
    /\ workers[i].pc = "named"
    /\ files' = (workers[i].filename :> DocOf(i)) @@ files
    /\ writeLog' = Append(writeLog, i)
    /\ workers' = [workers EXCEPT ![i].pc = "written"]
    /\ UNCHANGED <<now, writerFrame>>

\* datetime.now() moves to the next second.
WriterTick ==
    /\ now + 1 \in ClockValues
    /\ now' = now + 1
    /\ UNCHANGED <<workers, writeLog, files, writerFrame>>

NextWriters ==
    \/ \E i \in WorkerIds : Arrive(i)
    \/ \E i \in WorkerIds : NameFile(i)
    \/ \E i \in WorkerIds : WriteFile(i)
    \/ WriterTick

SpecWriters == InitWriters /\ [][NextWriters]_vars

(* ------------------------------------------------------------------ *)
(* upload_html_to_s3 called on its own, with any url_expiration_days    *)
(* (s3_uploader.py).                                                    *)
(* ------------------------------------------------------------------ *)
ExpirationDays == 1..MaxDays

InitUpload ==
    /\ bucketSet \in BOOLEAN
    /\ creds \in {"present", "absent", "partial"}
    /\ \E c \in CompanyNames, d \in ExpirationDays :
         ucall = [NoCall EXCEPT !.phase = "ready", !.company_name = c,
                                !.url_expiration_days = d]
    /\ pc = "off"
    /\ req = NoReq
    /\ params = NoParams
    /\ html = << >>
    /\ localName = NoName
    /\ resp = NoResp
    /\ calls = NoCalls
    /\ upExc = NoExc
    /\ env = NoEnv
    /\ files = << >>
    /\ now = 0
    /\ served = 0
    /\ WritersIdle
    /\ ValidatorIdle
    /\ CleanIdle

\* The call returns its record or raises.
CallUpload ==
    /\ ucall.phase = "ready"
    /\ \E pv \in ProviderOutcomes :
         LET r == upload_html_to_s3(ucall.company_name, now, pv,
                                    ucall.url_expiration_days)
         IN  ucall' = [ucall EXCEPT !.phase = IF r.exc = NoExc THEN "returned"
                                              ELSE "raised",
                                    !.exc = r.exc,
                                    !.result = r.result]
    /\ UNCHANGED <<confVars, reqVars, worldVars, writerVars, valVars, cleanVars>>

NextUpload == CallUpload

SpecUpload == InitUpload /\ [][NextUpload]_vars

(* ------------------------------------------------------------------ *)
(* Claims about the validators                                          *)
(* ------------------------------------------------------------------ *)
UpperHexDigits ==
    {"0", "1", "2", "3", "4", "5", "6", "7", "8", "9", "A", "B", "C", "D", "E", "F"}

\* The whole string is '#' followed by exactly 3 or exactly 6 hex digits.
IsHashHex(v) ==
    /\ Len(v) \in {4, 7}
    /\ v[1] = "#"
    /\ \A i \in 2..Len(v) : v[i] \in HexDigits

\* C4: primary_color is accepted if and only if the whole string is '#'
\* followed by exactly 3 or exactly 6 hexadecimal digits, and every accepted
\* value is returned upper-cased with its single leading '#': the same length
\* as the input, '#' first, upper-case hex digits after it and nothing else.
C4_ColorAcceptedIffHashHex ==
    (vphase = "done" /\ vfield = "primary_color") =>
        /\ vres.ok <=> IsHashHex(vin)
        /\ vres.ok =>
            /\ Len(vres.value) = Len(vin)
            /\ vres.value[1] = "#"
            /\ \A i \in 2..Len(vres.value) :
                  vres.value[i] \in UpperHexDigits /\ UpperChar(vin[i]) = vres.value[i]

\* Two characters that are the same letter in either case, or the same
\* character.
SameIgnoringCase(x, y) == x = y \/ <<x, y>> \in LowerPairs \/ <<y, x>> \in LowerPairs

EqualIgnoringCase(a, b) ==
    Len(a) = Len(b) /\ \A i \in 1..Len(a) : SameIgnoringCase(a[i], b[i])

AllowedValues(field) == IF field = "tone" THEN valid_tones ELSE valid_styles

\* C5: for tone and for design_style, an input is accepted if and only if it
\* equals one of the four allowed values ignoring letter case; the accepted
\* result is that canonical lowercase value; for every other string the
\* validator raises an error whose message lists all four allowed values.
C5_EnumAcceptedIffAllowed ==
    (vphase = "done" /\ vfield \in {"tone", "design_style"}) =>
        LET allowed == AllowedValues(vfield)
        IN  /\ Len(allowed) = 4
            /\ vres.ok <=> \E k \in 1..4 : EqualIgnoringCase(vin, allowed[k])
            /\ vres.ok =>
                \E k \in 1..4 : vres.value = allowed[k] /\ EqualIgnoringCase(vin, allowed[k])
            /\ ~vres.ok =>
                /\ vres.error.cls = "ValueError"
                /\ \A k \in 1..4 : Contains(vres.error.msg, allowed[k])

\* C5 witness: a mixed-case spelling was accepted and normalized, for a tone.
C5_WitnessAccepted ==
    /\ vphase = "done"
    /\ vfield = "tone"
    /\ vres.ok
    /\ vres.value # vin

(* ------------------------------------------------------------------ *)
(* Claims about the sanitizer                                           *)
(* ------------------------------------------------------------------ *)
\* C6: the sanitizer is idempotent: for every raw text x,
\* clean_html_response(clean_html_response(x)) = clean_html_response(x).
C6_Idempotent == cphase = "recleaned" => recleaned = cleaned

\* C7: the output of the sanitizer never contains more than 2 consecutive
\* newline characters.
C7_AtMostTwoNewlines == cphase # "raw" => MaxNewlineRun(cleaned) <= 2

\* A marker stripped only at the very start of the whole text (with its tag
\* and the CR/LF run after it).
LeadOnlyAtTextStart(s) ==
    IF StartsWithAt(s, 1, Fence) THEN SubSeq(s, LeadFenceEnd(s, 1), Len(s)) ELSE s

\* The start of the longest run of CR and LF that ends right before k.
RunStart(s, k) ==
    CHOOSE j \in 1..k :
        /\ \A m \in j..(k - 1) : s[m] \in {CR, LF}
        /\ j = 1 \/ s[j - 1] \notin {CR, LF}

\* A marker stripped only at the very end of the whole text (with the CR/LF
\* run before it).
TrailOnlyAtTextEnd(s) ==
    IF Len(s) >= 3 /\ StartsWithAt(s, Len(s) - 2, Fence)
    THEN SubSeq(s, 1, RunStart(s, Len(s) - 2) - 1)
    ELSE s

\* C8 as stated: the two fence-stripping steps act only at the ends of the
\* text; a marker at the start or end of an interior line is left alone by
\* them.
C8_FencesOnlyAtTextEnds ==
    cphase = "fenced" => fenced = TrailOnlyAtTextEnd(LeadOnlyAtTextStart(raw))

RECURSIVE Keep(_, _, _)
\* The characters of s, from position i on, at the positions not in gone.
Keep(s, i, gone) ==
    IF i > Len(s) THEN << >>
    ELSE IF i \in gone THEN Keep(s, i + 1, gone)
    ELSE <<s[i]>> \o Keep(s, i + 1, gone)

\* The positions of s taken by a marker that starts a line (the very start of
\* the text, or right after a newline), by its tag and by the CR/LF run after
\* it.
LineStartFenceSpans(s) ==
    UNION { i..(LeadFenceEnd(s, i) - 1) :
              i \in {k \in 1..Len(s) :
                        StartsWithAt(s, k, Fence) /\ (k = 1 \/ s[k - 1] = LF)} }

\* The positions of s taken by a marker that ends a line (the very end of the
\* text, or right before a newline) and by the CR/LF run before it.
LineEndFenceSpans(s) ==
    UNION { RunStart(s, i)..(i + 2) :
              i \in {k \in 1..Len(s) :
                        /\ StartsWithAt(s, k, Fence)
                        /\ (k + 2 = Len(s) \/ (k + 3 <= Len(s) /\ s[k + 3] = LF))} }

\* C8 as amended: the fence-stripping steps act at every line boundary. The
\* first strips each marker that starts a line of the text, the first line or
\* an interior one, with its tag and the CR/LF run after it, and nothing else;
\* the second strips each marker that ends a line, the last line or an
\* interior one, with the CR/LF run before it, and nothing else.
C8_FencesAtLineBoundaries ==
    cphase = "fenced" =>
        /\ afterLead = Keep(raw, 1, LineStartFenceSpans(raw))
        /\ fenced = Keep(afterLead, 1, LineEndFenceSpans(afterLead))

\* C8 witness: a tagged marker at the start of an interior line was stripped
\* by the first step, and one at the end of an interior line by the second.
C8_WitnessInteriorFence ==
    /\ cphase = "fenced"
    /\ \E i \in 2..Len(raw) :
          /\ raw[i - 1] = LF
          /\ StartsWithAt(raw, i, Fence \o HtmlTag)
          /\ raw[1] # BT
    /\ ~Contains(afterLead, HtmlTag)
    /\ \E i \in 1..Len(afterLead) :
          /\ StartsWithAt(afterLead, i, Fence)
          /\ i + 3 <= Len(afterLead)
          /\ afterLead[i + 3] = LF
    /\ ~Contains(fenced, Fence)

(* ------------------------------------------------------------------ *)
(* Claims about the generation endpoints and the upload                 *)
(* ------------------------------------------------------------------ *)
\* The upload of the request was called and raised.
UploadFailed == pc = "done" /\ calls.upload = 1 /\ upExc # NoExc

\* C1: in POST /generate-brand-content, once the local file is written, a
\* failure of the storage upload (no bucket name, no credentials, provider
\* rejection or any other) does not fail the request: the response is a 200
\* that reports success, carries the filename and filepath of the local file
\* (which is on disk with the document in it) and carries the upload error
\* as s3_error; it is never a 500.
C1_UploadFailureNonFatal ==
    UploadFailed =>
        /\ req.endpoint = "generate"
        /\ resp.status = 200
        /\ resp.success
        /\ resp.has_local
        /\ resp.filename = localName
        /\ resp.filepath = FilePath(localName)
        /\ localName \in DOMAIN files
        /\ files[localName] = html
        /\ resp.has_s3_error
        /\ resp.s3_error = upExc.msg
        /\ ~resp.has_s3

\* C1 witness: the provider rejected the put and the request still succeeded.
C1_WitnessRejectedUpload ==
    /\ UploadFailed
    /\ env.provider.kind = "reject"
    /\ resp.success

\* A request body whose tone, design style or color is not in the accepted
\* set: the four values of each enumeration in any letter case, '#' followed
\* by exactly 3 or 6 hex digits.
InvalidRequest(r) ==
    \/ ~\E k \in 1..Len(valid_tones) : EqualIgnoringCase(r.tone, valid_tones[k])
    \/ ~\E k \in 1..Len(valid_styles) : EqualIgnoringCase(r.design_style, valid_styles[k])
    \/ ~IsHashHex(r.primary_color)

NothingDone ==
    /\ calls.prompt = 0
    /\ calls.llm = 0
    /\ calls.write = 0
    /\ calls.upload = 0
    /\ calls.put = 0

\* C2: for both generation endpoints validation runs before everything else:
\* a request whose tone, design_style or primary_color is invalid ends with a
\* 400 response, and in that request no prompt is built, no LLM call is
\* issued, no local file is written and no upload is attempted.
C2_InvalidInputEndsIn400 ==
    (pc \notin {"idle", "validate"} /\ InvalidRequest(req)) =>
        /\ pc = "done"
        /\ resp.status = 400
        /\ NothingDone

\* C2, for the inputs the validators themselves reject: such a request ends
\* with a 400 response whose detail is the first validator error, and nothing
\* else is done in it.
C2_RejectedInputEndsIn400 ==
    (pc \notin {"idle", "validate"} /\ FirstValidationError(req) # NoExc) =>
        /\ pc = "done"
        /\ resp.status = 400
        /\ resp.detail = FirstValidationError(req).msg
        /\ NothingDone

\* The exceptions that report missing configuration.
UnavailableExcs ==
    { Exc("ValueError", <<BucketUnsetMsg>>),
      Exc("Exception", <<CredsMsg>>),
      Exc("PartialCredentialsError", <<PartialCredsMsg>>) }

\* C3: upload_html_to_s3 fails with a missing-configuration error when the
\* bucket name or the credentials are absent and with a provider error,
\* carrying the provider's message, when the provider rejects the call; no
\* provider error equals a missing-configuration error, so the caller can
\* tell them apart; with the bucket name unset the failure comes before any
\* call to the provider: no client is created and no object is put.
C3_UploadErrorsDistinguishable ==
    (pc = "done" /\ calls.upload = 1) =>
        /\ ~bucketSet =>
              /\ upExc = Exc("ValueError", <<BucketUnsetMsg>>)
              /\ calls.client = 0
              /\ calls.put = 0
              /\ calls.presign = 0
        /\ (bucketSet /\ creds = "absent") => upExc = Exc("Exception", <<CredsMsg>>)
        /\ (~bucketSet \/ creds # "present") =>
              upExc \in UnavailableExcs /\ env.provider = NoProvider
        /\ env.provider.kind = "reject" =>
              /\ bucketSet /\ creds = "present"
              /\ upExc.cls = "Exception"
              /\ upExc.msg = <<UploadFailedPrefix>> \o env.provider.msg
              /\ upExc \notin UnavailableExcs

\* C3 witness: the provider rejected the put with a message that repeats the
\* text of the missing-credentials error.
C3_WitnessProviderRejects ==
    /\ pc = "done"
    /\ calls.upload = 1
    /\ env.provider.kind = "reject"
    /\ env.provider.msg = <<CredsMsg>>

\* C9 as stated: the local save and the upload do not block each other: a
\* failed upload does not prevent the local copy's location from being
\* returned, and a failed local write does not prevent the upload from being
\* attempted.
C9_SaveAndUploadIndependent ==
    /\ UploadFailed => (resp.has_local /\ resp.filepath = FilePath(localName))
    /\ (pc = "done" /\ env.save = "failed") => calls.upload >= 1

\* C9 as amended: a failed upload does not prevent the local copy's location
\* from being returned; a failed local write ends the request with a 500
\* response and the upload is not attempted: the upload is attempted only
\* after the local write succeeded.
C9_UploadOnlyAfterSave ==
    /\ UploadFailed => (resp.has_local /\ resp.filepath = FilePath(localName))
    /\ env.save = "failed" =>
          /\ pc = "done"
          /\ resp.status = 500
          /\ ~resp.has_local
          /\ calls.upload = 0
          /\ calls.put = 0
    /\ calls.upload >= 1 => env.save = "ok"

\* C9 witness: the local write failed and the request ended.
C9_WitnessWriteFailed ==
    /\ pc = "done"
    /\ env.save = "failed"
    /\ calls.write = 1

\* C10: every request, whatever its outcome, performs at most one LLM call
\* and at most one storage call (one upload_html_to_s3, one client, one
\* put_object, one signed URL); nothing is repeated after a failure, and a
\* failed LLM call ends the request with a 500 and no storage call at all.
C10_AtMostOneCallEach ==
    /\ calls.llm <= 1
    /\ calls.upload <= 1
    /\ calls.client <= 1
    /\ calls.put <= 1
    /\ calls.presign <= 1
    /\ env.llm = "failed" =>
          /\ pc = "done"
          /\ resp.status = 500
          /\ calls.llm = 1
          /\ calls.write = 0
          /\ calls.upload = 0
          /\ calls.put = 0
    /\ (pc = "done" /\ upExc # NoExc) => (calls.upload = 1 /\ calls.put <= 1)

\* C10 witness: the LLM call failed and the request ended.
C10_WitnessLLMFailed ==
    /\ pc = "done"
    /\ env.llm = "failed"
    /\ calls.llm = 1

(* ------------------------------------------------------------------ *)
(* Claims about concurrent requests                                     *)
(* ------------------------------------------------------------------ *)
Written == {i \in WorkerIds : workers[i].pc = "written"}

SameSlugAndSecond(i, j) ==
    /\ Slugify(workers[i].company_name) = Slugify(workers[j].company_name)
    /\ workers[i].stamp = workers[j].stamp

SamePath(i, j) == FilePath(workers[i].filename) = FilePath(workers[j].filename)

\* The last request of the write log that wrote the file called name.
RECURSIVE LastWriter(_, _)
LastWriter(log, name) ==
    IF log = << >> THEN 0
    ELSE IF workers[log[Len(log)]].filename = name THEN log[Len(log)]
    ELSE LastWriter(SubSeq(log, 1, Len(log) - 1), name)

\* C11: two requests write the same local path only if their company names
\* have the same slug and their timestamps are of the same second, and then
\* the file holds the document written last; two requests that differ in
\* slug or in second write distinct files; whatever the order of the steps
\* of the requests and of the clock.
C11_SamePathOnlyIfSameSlugAndSecond ==
    /\ \A i \in Written : \A j \in Written \ {i} :
         /\ SamePath(i, j) => SameSlugAndSecond(i, j)
         /\ ~SameSlugAndSecond(i, j) =>
                /\ workers[i].filename # workers[j].filename
                /\ {workers[i].filename, workers[j].filename} \subseteq DOMAIN files
    /\ \A i \in Written :
         /\ workers[i].filename \in DOMAIN files
         /\ files[workers[i].filename] = DocOf(LastWriter(writeLog, workers[i].filename))

\* Two requests with different company names of the same slug, named in the
\* same second, have both written: the second write replaced the first.
C11_WitnessCollision ==
    \E i \in Written : \E j \in Written \ {i} :
        /\ workers[i].company_name # workers[j].company_name
        /\ SameSlugAndSecond(i, j)
        /\ SamePath(i, j)
        /\ writeLog = <<i, j>>
        /\ files[workers[i].filename] = DocOf(j)
        /\ Cardinality(DOMAIN files) = 1

(* ------------------------------------------------------------------ *)
(* Claims about the well-formedness check                               *)
(* ------------------------------------------------------------------ *)
\* The request has passed lines 78-90 of generate_brand_content.
PastSave ==
    /\ req.endpoint = "generate"
    /\ env.llm = "ok"
    /\ pc \in {"upload", "done"}

\* C12: a document is handled the same way whether or not validate_html
\* accepts it: the write is attempted; when it succeeds the file holds the
\* document, the upload is attempted and the response is the success
\* response that the upload's outcome alone determines; the request ends
\* with 500 only when the write failed.
C12_CheckResultChangesNothing ==
    PastSave =>
        /\ calls.write = 1
        /\ env.save \in {"ok", "failed"}
        /\ env.save = "ok" =>
               /\ localName \in DOMAIN files
               /\ files[localName] = html
               /\ pc = "done" =>
                      /\ calls.upload = 1
                      /\ resp = IF upExc = NoExc
                                THEN UploadedResponse(localName, resp.s3)
                                ELSE UploadFailureResponse(localName, upExc)
        /\ env.save = "failed" =>
               /\ calls.upload = 0
               /\ resp = GenerationError(WriteError)

\* A document that fails the check was written, uploaded and returned with
\* success.
C12_WitnessMalformedUploaded ==
    /\ PastSave
    /\ pc = "done"
    /\ ~validate_html(html)
    /\ html # << >>
    /\ env.save = "ok"
    /\ files[localName] = html
    /\ calls.upload = 1
    /\ resp.status = 200 /\ resp.success /\ resp.has_s3

(* ------------------------------------------------------------------ *)
(* Claims about the URL expiry                                          *)
(* ------------------------------------------------------------------ *)
DigitChars == {Digit(n) : n \in 0..9}

DigitValue(c) == CHOOSE n \in 0..9 : Digit(n) = c

\* The number a text starts with (0 when it starts with no digit).
RECURSIVE LeadingNumber(_, _)
LeadingNumber(text, acc) ==
    IF text = << >> \/ text[1] \notin DigitChars THEN acc
    ELSE LeadingNumber(Tail(text), 10 * acc + DigitValue(text[1]))

\* The seconds a text of the form "<n> days" stands for.
StatedSeconds(text) == LeadingNumber(text, 0) * 24 * 60 * 60

\* C13: for every url_expiration_days, the url_expires_in of the returned
\* record states the validity period requested for the pre-signed URL,
\* url_expiration_days * 24 * 60 * 60 seconds.
C13_ReportedExpiryIsRequested ==
    ucall.phase = "returned" =>
        /\ ucall.result.public_url.expires_in = ucall.url_expiration_days * 24 * 60 * 60
        /\ StatedSeconds(ucall.result.url_expires_in) = ucall.result.public_url.expires_in

\* With the default argument both are 7 days.
C13_DefaultExpiryAgrees ==
    (ucall.phase = "returned" /\ ucall.url_expiration_days = DefaultExpirationDays) =>
        /\ ucall.result.public_url.expires_in = 604800
        /\ StatedSeconds(ucall.result.url_expires_in) = 604800

====
